---- MODULE Spec2Model ----
(***************************************************************************)
(* Model of the routine-builder client (src/script.js): the product grid,  *)
(* the Selection Set and its persistence, and the conversation pipeline    *)
(* (Generate and Follow-up) with its asynchronous network calls.           *)
(*                                                                         *)
(* Every event handler is one action.  A handler that awaits a network     *)
(* call is split at the await: the part before it is one action, the       *)
(* continuation after the call returns (or fails) is another.              *)
(***************************************************************************)
EXTENDS Integers, Sequences, FiniteSets, TLC

(***************************************************************************)
(* Bounds of the model.                                                    *)
(***************************************************************************)
\* number of products of the catalog document (products.json)
NumProducts == 3
\* follow-up handlers that may be suspended at an await at the same time
MaxFollowUps == 2
\* a follow-up is only submitted while the Transcript is shorter than this
MaxTranscript == 4
\* updateProductGrid calls that may wait for their own catalog fetch
MaxGridPending == 1

(***************************************************************************)
(* Program constants.                                                      *)
(***************************************************************************)
\* webResults.slice(0, 6)
MaxWebShown == 6

(***************************************************************************)
(* Text.  A string is a sequence of one-character strings, so that trim,   *)
(* toLowerCase and includes are computed and not assumed.                  *)
(***************************************************************************)
LowerChar(c) ==
  CASE c = "G" -> "g"
    [] c = "E" -> "e"
    [] c = "L" -> "l"
    [] c = "C" -> "c"
    [] c = "R" -> "r"
    [] c = "S" -> "s"
    [] OTHER -> c

toLowerCase(s) == [i \in 1..Len(s) |-> LowerChar(s[i])]

RECURSIVE trimStart(_)
trimStart(s) ==
  IF s # <<>> /\ Head(s) = " " THEN trimStart(Tail(s)) ELSE s

RECURSIVE trimEnd(_)
trimEnd(s) ==
  IF s # <<>> /\ s[Len(s)] = " " THEN trimEnd(SubSeq(s, 1, Len(s) - 1)) ELSE s

trim(s) == trimEnd(trimStart(s))

\* String.prototype.includes
includes(s, t) ==
  \E i \in 0..(Len(s) - Len(t)) : SubSeq(s, i + 1, i + Len(t)) = t

(***************************************************************************)
(* The catalog document.  Products carry the fields the handlers read.     *)
(***************************************************************************)
ProductNames ==
  << <<"G","e","l">>, <<"C","r","e","a","m">>, <<"S","e","r","u","m">>,
     <<"G","e","l"," ","C","r","e","a","m">> >>

ProductCategories == << "cleanser", "moisturizer", "cleanser", "moisturizer" >>

Catalog ==
  [i \in 1..NumProducts |->
     [id |-> i, name |-> ProductNames[i], category |-> ProductCategories[i]]]

\* values the category <select> can take ("" is the placeholder option)
Categories == {"", "cleanser", "moisturizer"}

\* values typed into the search box
SearchTerms == { <<>>, <<"r","e">>, <<" ","G","E","L"," ">> }

(***************************************************************************)
(* Sequence helpers (Array.prototype).                                     *)
(***************************************************************************)
RECURSIVE filterSeq(_, _)
\* Array.prototype.filter with the predicate given as the set of kept values
filterSeq(s, keep) ==
  IF s = <<>> THEN <<>>
  ELSE IF Head(s) \in keep THEN <<Head(s)>> \o filterSeq(Tail(s), keep)
       ELSE filterSeq(Tail(s), keep)

\* selectedProducts.map((p) => p.id)
idsOf(sel) == [i \in 1..Len(sel) |-> sel[i].id]

\* Array.prototype.findIndex((p) => p.id === id), 1-based; 0 stands for -1
findIndex(sel, id) ==
  IF \E i \in 1..Len(sel) : sel[i].id = id
  THEN CHOOSE i \in 1..Len(sel) :
         sel[i].id = id /\ \A j \in 1..(i - 1) : sel[j].id # id
  ELSE 0

\* Array.prototype.splice(index, 1)
splice(s, index) == SubSeq(s, 1, index - 1) \o SubSeq(s, index + 1, Len(s))

Min(a, b) == IF a < b THEN a ELSE b

VARIABLES
  allProducts,          \* the catalog once init has loaded it, else <<>>
  selectedProducts,     \* the Selection Set: a sequence of products
  productsById,         \* products of the last rendered grid, as a set
  cards,                \* the rendered cards: <<[id, selected]>>
  chips,                \* ids of the chips rendered in the selection tray
  localStorage,         \* the item "selectedProductIds": [kind, ids]
  categoryFilter,       \* value of the category <select>
  productSearch,        \* value of the search box
  initPc,               \* init(): "loading", "done" or "failed"
  gridPending,          \* updateProductGrid calls awaiting loadProducts()
  catalogFetches,       \* fetch("products.json") calls issued so far (capped)
  searchProxy,          \* whether window.SEARCH_PROXY_URL is configured
  workerShape,          \* shape of the bodies the chat endpoint answers with
  conversationMessages, \* the Transcript
  routineGenerated,     \* the "routine generated" flag
  generateBtnDisabled,  \* generateBtn.disabled
  sendBtnDisabled,      \* sendBtn.disabled
  gen,                  \* the Generate handler: [pc, web, failed]
  followUps,            \* the Follow-up handlers in flight, by slot
  lastPayload,          \* history: the user message of the latest Generate
  lastEvent,            \* history: the handler step taken last
  overlay,              \* the Detail Overlay, the focus and the focus timers
  wk                    \* the proxy worker: the request it handles

selVars == <<allProducts, selectedProducts, productsById, cards, chips,
             localStorage, categoryFilter, productSearch, initPc,
             gridPending, catalogFetches>>
chatVars == <<conversationMessages, routineGenerated, generateBtnDisabled,
              sendBtnDisabled, gen, followUps, lastPayload>>
config == <<searchProxy, workerShape>>
\* what the handlers of the page leave alone
frame == <<config, overlay, wk>>
vars == <<selVars, chatVars, frame, lastEvent>>

(***************************************************************************)
(* Selection tray and persistence.                                         *)
(***************************************************************************)
\* saveSelectedToStorage(): the item written under "selectedProductIds"
saveSelectedToStorage(sel) == [kind |-> "array", ids |-> idsOf(sel)]

\* updateSelectedList(): the chips rendered and the item left in storage.
\* With an empty selection the function returns after writing the
\* placeholder, before it reaches saveSelectedToStorage().
updateSelectedList(sel, storage) ==
  IF Len(sel) = 0
  THEN [chips |-> <<>>, storage |-> storage]
  ELSE [chips |-> idsOf(sel), storage |-> saveSelectedToStorage(sel)]

\* toggleSelection with splice(index) in place of splice(index, 1): the
\* entries after the deselected one are removed with it
toggleSelectionSpliceAll(sel, product) ==
  LET index == findIndex(sel, product.id)
  IN IF index = 0 THEN Append(sel, product) ELSE SubSeq(sel, 1, index - 1)

\* toggleSelection(cardEl), selection part: push when absent, else splice
toggleSelection(sel, product) ==
  LET index == findIndex(sel, product.id)
  IN IF index = 0 THEN Append(sel, product) ELSE splice(sel, index)

\* a remove-chip handler that drops the newest entry of the selection
removeChipNewest(sel, id) ==
  IF Len(sel) > 0 THEN SubSeq(sel, 1, Len(sel) - 1) ELSE sel

\* the remove-chip handler, selection part
removeChip(sel, id) ==
  LET idx == findIndex(sel, id)
  IN IF idx # 0 THEN splice(sel, idx) ELSE sel

\* rehydration by ids.map(...) over the stored list, as the unused
\* loadSelectedFromStorage() maps it, keeping the ids the catalog holds
rehydrateByMap(products, ids) ==
  LET known == filterSeq(ids, {products[i].id : i \in 1..Len(products)})
  IN [k \in 1..Len(known) |->
        CHOOSE p \in {products[i] : i \in 1..Len(products)} : p.id = known[k]]

\* rehydration that keeps every stored id as a placeholder of the product
rehydratePlaceholders(products, ids) ==
  [k \in 1..Len(ids) |-> [id |-> ids[k], name |-> <<>>, category |-> ""]]

\* init(): selectedProducts = allProducts.filter((p) => ids.includes(p.id))
rehydrate(products, ids) ==
  filterSeq(products,
            {products[i] : i \in {j \in 1..Len(products) :
                                    \E k \in 1..Len(ids) : ids[k] = products[j].id}})

(***************************************************************************)
(* Grid.                                                                   *)
(***************************************************************************)
\* the filtered list with the search term lowered but not trimmed
filterProductsNoTrim(products, category, search) ==
  LET all == {products[i] : i \in 1..Len(products)}
      byCategory ==
        IF category # ""
        THEN filterSeq(products, {p \in all : p.category = category})
        ELSE products
      searchTerm == toLowerCase(search)
  IN IF searchTerm # <<>>
     THEN filterSeq(byCategory,
                    {p \in all : includes(toLowerCase(p.name), searchTerm)})
     ELSE byCategory

\* updateProductGrid(): the filtered list
filterProducts(products, category, search) ==
  LET all == {products[i] : i \in 1..Len(products)}
      byCategory ==
        IF category # ""
        THEN filterSeq(products, {p \in all : p.category = category})
        ELSE products
      searchTerm == IF search # <<>> THEN toLowerCase(trim(search)) ELSE <<>>
  IN IF searchTerm # <<>>
     THEN filterSeq(byCategory,
                    {p \in all : includes(toLowerCase(p.name), searchTerm)})
     ELSE byCategory

\* displayProducts(products): one card per product, marked when selected
displayProducts(products, sel) ==
  [i \in 1..Len(products) |->
     [id |-> products[i].id,
      selected |-> \E j \in 1..Len(sel) : sel[j].id = products[i].id]]

\* updateProductGrid() once it holds the product list: what the container
\* and productsById become.  An empty result writes the placeholder and
\* leaves productsById as it was.
renderGrid(products, category, search, sel, byId) ==
  LET filtered == filterProducts(products, category, search)
  IN IF Len(filtered) = 0
     THEN [cards |-> <<>>, byId |-> byId]
     ELSE [cards |-> displayProducts(filtered, sel),
           byId |-> {filtered[i] : i \in 1..Len(filtered)}]

\* card.classList add/remove "selected" on the cards with this id
markCard(cs, id, flag) ==
  [i \in 1..Len(cs) |->
     IF cs[i].id = id THEN [id |-> id, selected |-> flag] ELSE cs[i]]

\* a control of the page that can hold the focus: the document body, the
\* close control of the overlay, or the "learn more" control of the card of
\* product id; live tells whether the element is still in the document
Control(kind, id, live) == [kind |-> kind, id |-> id, live |-> live]
Body == Control("body", 0, TRUE)
NoControl == Control("none", 0, FALSE)

\* before the first "learn more": no modal element, the focus on the body.
\* closes is history: for each pending focus timer, the control that had
\* opened the overlay when closeProductModal() started the timer, and
\* whether the overlay was open then
OverlayInit ==
  [created |-> FALSE, open |-> FALSE, product |-> 0, lastFocused |-> NoControl,
   focus |-> Body, timers |-> 0, closes |-> <<>>]

\* productsContainer.innerHTML = ...: the cards of before leave the
\* document, and the focus with them when one of their controls held it
detach(ov) ==
  [ov EXCEPT !.lastFocused = IF @.kind = "learn"
                             THEN Control("learn", @.id, FALSE) ELSE @,
             !.focus = IF @.kind = "learn" THEN Body ELSE @,
             !.closes = [i \in 1..Len(@) |->
                           [@[i] EXCEPT !.opener =
                              IF @.kind = "learn"
                              THEN Control("learn", @.id, FALSE) ELSE @]]]

\* a saturating count of catalog fetches
MaxFetchCount == 2
countFetch(n) == Min(n + 1, MaxFetchCount)

\* a handler step: its name, the product it was about, the Selection Set
\* before it (card toggles only) and the message it appended to the chat
Event(op, id, before, shown) ==
  [op |-> op, id |-> id, before |-> before, shown |-> shown,
   again |-> FALSE, first |-> <<>>]

\* a card toggle: again tells that the step before it toggled the same
\* card, and first is then the Selection Set before that earlier toggle
ToggleEvent(id, before, last) ==
  [op |-> "toggle", id |-> id, before |-> before, shown |-> "",
   again |-> (last.op = "toggle" /\ last.id = id),
   first |-> IF last.op = "toggle" /\ last.id = id THEN last.before ELSE <<>>]

\* updateProductGrid() as called from a handler: renders at once when the
\* catalog is held, else starts its own loadProducts() and renders later
UpdateProductGrid(category, search, sel) ==
  IF Len(allProducts') > 0
  THEN LET g == renderGrid(allProducts', category, search, sel, productsById)
       IN /\ cards' = g.cards
          /\ productsById' = g.byId
          /\ overlay' = detach(overlay)
          /\ UNCHANGED <<gridPending, catalogFetches>>
  ELSE /\ gridPending < MaxGridPending
       /\ gridPending' = gridPending + 1
       /\ catalogFetches' = countFetch(catalogFetches)
       /\ UNCHANGED <<cards, productsById, overlay>>

(***************************************************************************)
(* The proxy workers (src/search-proxy-worker.js): the combined worker with *)
(* its /chat and /search routes, and the minimal search proxy.  A worker   *)
(* keeps nothing between requests, so a behaviour follows one request     *)
(* from its arrival to its response, split at the awaited upstream calls.  *)
(***************************************************************************)
\* max of doOpenAISearch(messageString, env, 6) in /chat
ChatSearchMax == 6
\* max of doOpenAISearch(q, env, 8) in /search
SearchMax == 8
\* slice(0, 6) of the minimal search proxy
MinimalMax == 6

\* String.prototype.endsWith
endsWith(s, t) ==
  Len(s) >= Len(t) /\ SubSeq(s, Len(s) - Len(t) + 1, Len(s)) = t

\* url.pathname.replace(/\/$/, "")
trimSlash(path) ==
  IF path # <<>> /\ path[Len(path)] = "/"
  THEN SubSeq(path, 1, Len(path) - 1) ELSE path

ApplicationJson == <<"a", "p", "p", "l", "i", "c", "a", "t", "i", "o", "n", "/", "j", "s", "o", "n">>
ChatSuffix == <<"/", "c", "h", "a", "t">>
SearchSuffix == <<"/", "s", "e", "a", "r", "c", "h">>

FormUrlEncoded == <<"a", "p", "p", "l", "i", "c", "a", "t", "i", "o", "n", "/", "x", "-", "w", "w", "w", "-", "f", "o", "r", "m", "-", "u", "r", "l", "e", "n", "c", "o", "d", "e", "d">>

\* content-type headers of the requests ("" when the header is absent)
ContentTypes ==
  { <<>>,
    ApplicationJson,
    ApplicationJson \o <<";", " ", "c", "h", "a", "r", "s", "e", "t", "=", "u", "t", "f", "-", "8">>,
    FormUrlEncoded,
    <<"t", "e", "x", "t", "/", "p", "l", "a", "i", "n">> }

\* request.formData() reads bodies of these types and throws on the others
FormTypes == { FormUrlEncoded }

Methods == {"OPTIONS", "GET", "POST"}

Paths ==
  { <<"/", "c", "h", "a", "t">>, <<"/", "c", "h", "a", "t", "/">>, <<"/", "a", "p", "i", "/", "s", "e", "a", "r", "c", "h">>, <<"/", "s", "e", "a", "r", "c", "h">>,
    <<"/">>, <<"/", "c", "h", "a", "t", "x">> }

\* query strings: none, blanks, a query with blanks around it
Queries == { <<>>, <<" ">>, <<" ", "h", "i", " ">> }

\* a message of a transcript; results is the number of search results a
\* system message of the worker carries
WMsg(role, content) == [role |-> role, content |-> content, results |-> 0]

\* transcripts a client may send: none, one ending with a user turn, one
\* without a user turn, and one whose only user turn is empty
Transcripts ==
  { <<>>,
    << WMsg("system", <<"s">>), WMsg("user", <<"a">>),
       WMsg("assistant", <<"r">>), WMsg("user", <<"b">>) >>,
    << WMsg("user", <<"a">>), WMsg("assistant", <<"r">>) >>,
    << WMsg("system", <<"s">>), WMsg("assistant", <<"r">>) >>,
    << WMsg("user", <<>>) >> }

\* the message field of a /chat body: absent, a string, or another value
MessageFields ==
  {[kind |-> "absent", text |-> <<>>], [kind |-> "other", text |-> <<>>]}
  \cup {[kind |-> "string", text |-> t] : t \in Queries}

\* the messages field of a /chat body: absent or an array
MessagesFields ==
  {[kind |-> "absent", items |-> <<>>]}
  \cup {[kind |-> "array", items |-> t] : t \in Transcripts}

\* request bodies: text that is not JSON, bodies for /chat, bodies for
\* /search (a form or a query string carries the same q)
Bodies ==
  {[valid |-> FALSE, message |-> [kind |-> "absent", text |-> <<>>],
    messages |-> [kind |-> "absent", items |-> <<>>], q |-> <<>>]}
  \cup {[valid |-> TRUE, message |-> m, messages |-> ms, q |-> <<>>] :
          m \in MessageFields, ms \in MessagesFields}
  \cup {[valid |-> TRUE, message |-> [kind |-> "absent", text |-> <<>>],
         messages |-> [kind |-> "absent", items |-> <<>>], q |-> q] :
          q \in Queries}

Requests ==
  [method : Methods, path : Paths, contentType : ContentTypes, body : Bodies]

\* the keys bound in the worker's environment
CombinedEnvs ==
  {[openai |-> k, serp |-> FALSE, google |-> FALSE, cx |-> FALSE] :
     k \in BOOLEAN}
MinimalEnvs ==
  [openai : {FALSE}, serp : BOOLEAN, google : BOOLEAN, cx : BOOLEAN]

\* what an upstream call comes back with: results (or a reply), a
\* non-success status, or an exception
Outcomes ==
  {[kind |-> "ok", n |-> n] : n \in {0, 3, 9}}
  \cup {[kind |-> "status", n |-> 0], [kind |-> "throw", n |-> 0]}

NoRequest ==
  [method |-> "", path |-> <<>>, contentType |-> <<>>,
   body |-> [valid |-> FALSE, message |-> [kind |-> "absent", text |-> <<>>],
             messages |-> [kind |-> "absent", items |-> <<>>], q |-> <<>>]]
NoEnv == [openai |-> FALSE, serp |-> FALSE, google |-> FALSE, cx |-> FALSE]
NoResponse == [status |-> 0, kind |-> "", n |-> 0]

\* the worker before any request
WkIdle ==
  [pc |-> "idle", unit |-> "", worker |-> "", route |-> "", req |-> NoRequest,
   env |-> NoEnv, q |-> <<>>, messages |-> <<>>, web |-> 0, calls |-> <<>>,
   resp |-> NoResponse]

\* What is loaded as the worker module: "file" is src/search-proxy-worker.js
\* as committed, "combined" its lines 1-290 and "minimal" its lines 292-398
\* as modules of their own.
CommittedUnits == {"file", "combined", "minimal"}

\* code points of the characters of the class range
CharCode(c) ==
  CASE c = "%" -> 37
    [] c = "#" -> 35
    [] OTHER -> 0

\* a class range lo-hi of a regular expression literal is accepted when lo
\* is not above hi; else the literal is a syntax error, an early one
rangeInOrder(lo, hi) == CharCode(lo) <= CharCode(hi)

\* the class ranges of the regular expression literals of a unit: the URL
\* pattern of doOpenAISearch has the range %-#
classRanges(unit) ==
  IF unit \in {"file", "combined"} THEN { <<"%", "#">> } ELSE {}

\* the unit declares CORS_HEADERS twice and has two default exports
declaredTwice(unit) == unit = "file"

\* the engine accepts the unit as a module; a unit it rejects has no fetch
\* handler
parses(unit) ==
  /\ \A r \in classRanges(unit) : rangeInOrder(r[1], r[2])
  /\ ~declaredTwice(unit)

\* a request sent to a unit that was rejected: nothing handles it and no
\* response is made
rejected(worker, unit, req, env) ==
  [WkIdle EXCEPT !.pc = "done", !.unit = unit, !.worker = worker,
                 !.req = req, !.env = env]

Response(status, kind, n) == [status |-> status, kind |-> kind, n |-> n]

\* the system message /chat builds from the search results
webResultsMsg(n) ==
  [role |-> "system", content |-> <<"w", "e", "b">>, results |-> n]

\* the system message /chat builds when the search threw
searchFailedMsg ==
  [role |-> "system", content |-> <<"f", "a", "i", "l">>, results |-> 0]

\* an upstream call: a search (doOpenAISearch, SerpAPI, Google) or the
\* language-model call with the messages it is given
SearchCall(to, q, max) == [to |-> to, q |-> q, max |-> max, messages |-> <<>>]
LlmCall(messages) == [to |-> "llm", q |-> <<>>, max |-> 0, messages |-> messages]

\* /chat: the query of the search: body.message when it is a non-empty
\* string, else the content of the last user message of body.messages
messageString(body) ==
  IF body.message.kind = "string" /\ body.message.text # <<>>
  THEN trim(body.message.text)
  ELSE IF body.messages.kind = "array" /\ Len(body.messages.items) > 0
       THEN LET items == body.messages.items
                users == {i \in 1..Len(items) : items[i].role = "user"}
            IN IF users = {} THEN <<>>
               ELSE items[CHOOSE i \in users : \A j \in users : j <= i].content
       ELSE <<>>

\* /chat once the search is over: messages.unshift(...) of the results when
\* there are any, of the failure notice when the search threw
unshiftSearch(messages, o) ==
  IF o.kind = "ok"
  THEN IF Min(o.n, ChatSearchMax) > 0
       THEN <<webResultsMsg(Min(o.n, ChatSearchMax))>> \o messages
       ELSE messages
  ELSE <<searchFailedMsg>> \o messages

\* the combined worker from the arrival of a request to its first upstream
\* call, or to its response when it makes none
CombinedStart(req, env) ==
  LET path == trimSlash(req.path)
      json == includes(req.contentType, ApplicationJson)
      base == [WkIdle EXCEPT !.worker = "combined", !.req = req, !.env = env]
      done(route, status, kind) ==
        [base EXCEPT !.pc = "done", !.route = route,
                     !.resp = Response(status, kind, 0)]
  IN IF req.method = "OPTIONS" THEN done("preflight", 204, "empty")
     ELSE IF req.method = "POST" /\ endsWith(path, ChatSuffix)
     THEN IF ~json THEN done("chat", 400, "error")
          ELSE IF ~req.body.valid THEN done("chat", 500, "error")
          ELSE LET messages == IF req.body.messages.kind = "array"
                               THEN req.body.messages.items ELSE <<>>
                   q == messageString(req.body)
               IN IF q # <<>>
                  THEN IF env.openai
                       THEN [base EXCEPT !.pc = "search", !.route = "chat",
                                         !.q = q, !.messages = messages,
                                         !.calls = <<SearchCall("openai", q, ChatSearchMax)>>]
                       ELSE \* doOpenAISearch throws, then callOpenAIResponses
                            [done("chat", 500, "error") EXCEPT
                               !.q = q,
                               !.messages = <<searchFailedMsg>> \o messages]
                  ELSE IF env.openai
                       THEN [base EXCEPT !.pc = "llm", !.route = "chat",
                                         !.messages = messages,
                                         !.calls = <<LlmCall(messages)>>]
                       ELSE [done("chat", 500, "error") EXCEPT
                               !.messages = messages]
     ELSE IF req.method = "POST" /\ endsWith(path, SearchSuffix)
     THEN IF ~json THEN done("search", 400, "error")
          ELSE IF ~req.body.valid THEN done("search", 500, "error")
          ELSE LET q == trim(req.body.q)
               IN IF q = <<>> THEN done("search", 200, "results")
                  ELSE IF env.openai
                       THEN [base EXCEPT !.pc = "search", !.route = "search",
                                         !.q = q,
                                         !.calls = <<SearchCall("openai", q, SearchMax)>>]
                       ELSE [done("search", 500, "error") EXCEPT !.q = q]
     ELSE done("none", 404, "error")

\* a request sent to the combined worker of a unit: handled when the unit
\* was accepted as a module
CombinedLoad(unit, req, env) ==
  IF parses(unit)
  THEN [CombinedStart(req, env) EXCEPT !.unit = unit]
  ELSE rejected("combined", unit, req, env)

\* a request is sent to the combined worker as the repository holds it
CombinedRequest ==
  /\ wk.pc = "idle"
  /\ \E unit \in CommittedUnits \ {"minimal"}, req \in Requests,
        env \in CombinedEnvs :
       wk' = CombinedLoad(unit, req, env)
  /\ UNCHANGED <<selVars, chatVars, config, overlay, lastEvent>>

\* combined worker: doOpenAISearch() returned or threw
CombinedSearchReturn(o) ==
  /\ parses(wk.unit)
  /\ wk.worker = "combined" /\ wk.pc = "search"
  /\ wk' =
       IF wk.route = "chat"
       THEN LET messages == unshiftSearch(wk.messages, o)
            IN [wk EXCEPT !.pc = "llm",
                          !.web = IF o.kind = "ok"
                                  THEN Min(o.n, ChatSearchMax) ELSE 0,
                          !.messages = messages,
                          !.calls = Append(@, LlmCall(messages))]
       ELSE IF o.kind = "ok"
            THEN [wk EXCEPT !.pc = "done",
                            !.resp = Response(200, "results", Min(o.n, SearchMax))]
            ELSE [wk EXCEPT !.pc = "done", !.resp = Response(500, "error", 0)]
  /\ UNCHANGED <<selVars, chatVars, config, overlay, lastEvent>>

\* combined worker: callOpenAIResponses() returned or threw
CombinedLlmReturn(o) ==
  /\ parses(wk.unit)
  /\ wk.worker = "combined" /\ wk.pc = "llm"
  /\ wk' =
       IF o.kind = "ok"
       THEN [wk EXCEPT !.pc = "done", !.resp = Response(200, "reply", wk.web)]
       ELSE [wk EXCEPT !.pc = "done", !.resp = Response(500, "error", 0)]
  /\ UNCHANGED <<selVars, chatVars, config, overlay, lastEvent>>

\* else if (googleKey && googleCx)
googleConfigured(env) == env.google /\ env.cx

\* the minimal search proxy from the arrival of a request to its search
\* call, or to its response when it makes none
MinimalStart(req, env) ==
  LET base == [WkIdle EXCEPT !.worker = "minimal", !.route = "search",
                             !.req = req, !.env = env]
      done(status, kind) ==
        [base EXCEPT !.pc = "done", !.resp = Response(status, kind, 0)]
      json == includes(req.contentType, ApplicationJson)
      throws == /\ req.method = "POST"
                /\ IF json THEN ~req.body.valid
                   ELSE req.contentType \notin FormTypes
      q == trim(req.body.q)
  IN IF req.method = "OPTIONS"
     THEN [done(204, "empty") EXCEPT !.route = "preflight"]
     ELSE IF throws THEN done(500, "error")
     ELSE IF q = <<>> THEN done(200, "results")
     ELSE IF env.serp
          THEN [base EXCEPT !.pc = "search", !.q = q,
                            !.calls = <<SearchCall("serpapi", q, MinimalMax)>>]
     ELSE IF googleConfigured(env)
          THEN [base EXCEPT !.pc = "search", !.q = q,
                            !.calls = <<SearchCall("google", q, MinimalMax)>>]
     ELSE [done(400, "error") EXCEPT !.q = q]

\* a request sent to the minimal search proxy of a unit: handled when the
\* unit was accepted as a module
MinimalLoad(unit, req, env) ==
  IF parses(unit)
  THEN [MinimalStart(req, env) EXCEPT !.unit = unit]
  ELSE rejected("minimal", unit, req, env)

\* a request is sent to the minimal search proxy as the repository holds it
MinimalRequest ==
  /\ wk.pc = "idle"
  /\ \E unit \in CommittedUnits \ {"combined"}, req \in Requests,
        env \in MinimalEnvs :
       wk' = MinimalLoad(unit, req, env)
  /\ UNCHANGED <<selVars, chatVars, config, overlay, lastEvent>>

\* minimal search proxy: the provider answered, or the fetch threw
MinimalSearchReturn(o) ==
  /\ parses(wk.unit)
  /\ wk.worker = "minimal" /\ wk.pc = "search"
  /\ wk' =
       IF o.kind = "throw"
       THEN [wk EXCEPT !.pc = "done", !.resp = Response(500, "error", 0)]
       ELSE [wk EXCEPT !.pc = "done",
                       !.resp = Response(200, "results",
                                         IF o.kind = "ok"
                                         THEN Min(o.n, MinimalMax) ELSE 0)]
  /\ UNCHANGED <<selVars, chatVars, config, overlay, lastEvent>>

\* the workers as the repository holds them
ProxyNext ==
  \/ CombinedRequest
  \/ MinimalRequest
  \/ \E o \in Outcomes : MinimalSearchReturn(o)

\* the steps of the combined worker behind its upstream calls; they belong
\* to a handler of a loaded module, and no unit that holds the combined
\* worker is accepted as one
CombinedNext ==
  \/ \E o \in Outcomes : CombinedSearchReturn(o)
  \/ \E o \in Outcomes : CombinedLlmReturn(o)

(***************************************************************************)
(* Initial state: the script has run to its end; init() is suspended at    *)
(* its await of loadProducts().                                            *)
(***************************************************************************)
NoEvent == Event("load", 0, <<>>, "")
Idle == [pc |-> "idle", text |-> <<>>, web |-> 0, pushed |-> 0, failed |-> FALSE]
GenIdle == [pc |-> "idle", web |-> 0, failed |-> FALSE]

\* what the storage item may hold when the page loads
InitialStorage ==
  {[kind |-> "absent", ids |-> <<>>], [kind |-> "invalid", ids |-> <<>>]}
  \cup {[kind |-> "array", ids |-> s] :
          s \in {<<>>, <<1>>, <<1, 1>>, <<NumProducts, 1>>,
                 <<NumProducts + 1>>, <<NumProducts + 1, 1>>}}

Init ==
  /\ allProducts = <<>>
  /\ selectedProducts = <<>>
  /\ productsById = {}
  /\ cards = <<>>
  /\ chips = <<>>
  /\ localStorage \in InitialStorage
  /\ categoryFilter = ""
  /\ productSearch = <<>>
  /\ initPc = "loading"
  /\ gridPending = 0
  /\ catalogFetches = 1
  /\ searchProxy \in BOOLEAN
  /\ workerShape \in {"proxy", "choices"}
  /\ conversationMessages = <<>>
  /\ routineGenerated = FALSE
  /\ generateBtnDisabled = FALSE
  /\ sendBtnDisabled = FALSE
  /\ gen = GenIdle
  /\ followUps = [f \in 1..MaxFollowUps |-> Idle]
  /\ lastPayload = <<>>
  /\ lastEvent = NoEvent
  /\ wk = WkIdle
  /\ overlay = OverlayInit

(***************************************************************************)
(* Startup load and grid.                                                  *)
(***************************************************************************)
\* init(): loadProducts() resolved
InitLoadOk ==
  /\ initPc = "loading"
  /\ initPc' = "done"
  /\ allProducts' = Catalog
  /\ lastEvent' = Event("initLoaded", 0, <<>>, "")
  /\ IF localStorage.kind = "invalid"
     THEN \* JSON.parse throws: the catch block ends init()
          UNCHANGED <<selectedProducts, chips, localStorage, cards,
                      productsById, gridPending, catalogFetches, overlay>>
     ELSE /\ selectedProducts' =
               IF localStorage.kind = "array" /\ Len(localStorage.ids) > 0
               THEN rehydrate(allProducts', localStorage.ids)
               ELSE selectedProducts
          /\ LET u == updateSelectedList(selectedProducts', localStorage)
             IN chips' = u.chips /\ localStorage' = u.storage
          /\ UpdateProductGrid(categoryFilter, productSearch, selectedProducts')
  /\ UNCHANGED <<categoryFilter, productSearch, chatVars, config, wk>>

\* init(): loadProducts() rejected; the catch block ignores it
InitLoadFail ==
  /\ initPc = "loading"
  /\ initPc' = "failed"
  /\ lastEvent' = Event("initFailed", 0, <<>>, "")
  /\ UNCHANGED <<allProducts, selectedProducts, productsById, cards, chips,
                 localStorage, categoryFilter, productSearch, gridPending,
                 catalogFetches, chatVars, frame>>

\* categoryFilter "change"
CategoryChange(c) ==
  /\ c # categoryFilter
  /\ categoryFilter' = c
  /\ allProducts' = allProducts
  /\ UpdateProductGrid(c, productSearch, selectedProducts)
  /\ lastEvent' = Event("category", 0, <<>>, "")
  /\ UNCHANGED <<selectedProducts, chips, localStorage, productSearch, initPc,
                 chatVars, config, wk>>

\* productSearch "input"
SearchInput(t) ==
  /\ t # productSearch
  /\ productSearch' = t
  /\ allProducts' = allProducts
  /\ UpdateProductGrid(categoryFilter, t, selectedProducts)
  /\ lastEvent' = Event("search", 0, <<>>, "")
  /\ UNCHANGED <<selectedProducts, chips, localStorage, categoryFilter, initPc,
                 chatVars, config, wk>>

\* updateProductGrid(): its own loadProducts() resolved; the filters are
\* read after the await
GridLoadOk ==
  /\ gridPending > 0
  /\ gridPending' = gridPending - 1
  /\ LET g == renderGrid(Catalog, categoryFilter, productSearch,
                         selectedProducts, productsById)
     IN cards' = g.cards /\ productsById' = g.byId
  /\ overlay' = detach(overlay)
  /\ lastEvent' = Event("gridLoaded", 0, <<>>, "")
  /\ UNCHANGED <<allProducts, selectedProducts, chips, localStorage,
                 categoryFilter, productSearch, initPc, catalogFetches,
                 chatVars, config, wk>>

\* updateProductGrid(): its own loadProducts() rejected
GridLoadFail ==
  /\ gridPending > 0
  /\ gridPending' = gridPending - 1
  /\ lastEvent' = Event("gridFailed", 0, <<>>, "")
  /\ UNCHANGED <<allProducts, selectedProducts, productsById, cards, chips,
                 localStorage, categoryFilter, productSearch, initPc,
                 catalogFetches, chatVars, frame>>

(***************************************************************************)
(* Selection Set mutations.                                                *)
(***************************************************************************)
\* click (or Enter/Space) on the card of product id
CardToggle(id) ==
  /\ \E i \in 1..Len(cards) : cards[i].id = id
  /\ \E product \in productsById :
       /\ product.id = id
       /\ selectedProducts' = toggleSelection(selectedProducts, product)
  /\ cards' = markCard(cards, id, findIndex(selectedProducts, id) = 0)
  /\ LET u == updateSelectedList(selectedProducts', localStorage)
     IN chips' = u.chips /\ localStorage' = u.storage
  /\ lastEvent' = ToggleEvent(id, selectedProducts, lastEvent)
  /\ UNCHANGED <<allProducts, productsById, categoryFilter, productSearch,
                 initPc, gridPending, catalogFetches, chatVars, frame>>

\* click on the remove control of the chip of product id
ChipRemove(id) ==
  /\ \E i \in 1..Len(chips) : chips[i] = id
  /\ selectedProducts' = removeChip(selectedProducts, id)
  /\ cards' = markCard(cards, id, FALSE)
  /\ chips' = updateSelectedList(selectedProducts', localStorage).chips
  /\ localStorage' = saveSelectedToStorage(selectedProducts')
  /\ lastEvent' = Event("chipRemove", id, <<>>, "")
  /\ UNCHANGED <<allProducts, productsById, categoryFilter, productSearch,
                 initPc, gridPending, catalogFetches, chatVars, frame>>

\* click on the body of the chip of product id
ChipClick(id) ==
  /\ \E i \in 1..Len(chips) : chips[i] = id
  /\ categoryFilter' = ""
  /\ allProducts' = allProducts
  /\ UpdateProductGrid("", productSearch, selectedProducts)
  /\ lastEvent' = Event("chipClick", id, <<>>, "")
  /\ UNCHANGED <<selectedProducts, chips, localStorage, productSearch, initPc,
                 chatVars, config, wk>>

\* clearAllSelections(), bound to the clear button
ClearAll ==
  /\ selectedProducts' = <<>>
  /\ localStorage' = saveSelectedToStorage(selectedProducts')
  /\ cards' = [i \in 1..Len(cards) |-> [id |-> cards[i].id, selected |-> FALSE]]
  /\ chips' = updateSelectedList(selectedProducts', localStorage').chips
  /\ lastEvent' = Event("clearAll", 0, <<>>, "")
  /\ UNCHANGED <<allProducts, productsById, categoryFilter, productSearch,
                 initPc, gridPending, catalogFetches, chatVars, frame>>

SelNext ==
  \/ InitLoadOk
  \/ InitLoadFail
  \/ \E c \in Categories : CategoryChange(c)
  \/ \E t \in SearchTerms : SearchInput(t)
  \/ GridLoadOk
  \/ GridLoadFail
  \/ \E id \in 1..NumProducts : CardToggle(id)
  \/ \E id \in 1..NumProducts : ChipRemove(id)
  \/ \E id \in 1..NumProducts : ChipClick(id)
  \/ ClearAll

SelSpec == Init /\ [][SelNext]_vars

(***************************************************************************)
(* Detail Overlay.                                                         *)
(***************************************************************************)
\* focus-restoration timers that may be pending at the same time
MaxTimers == 2

\* showProductModal(product, opener): the modal is created when there is
\* none, the opener is remembered and the focus goes to the close control
showProductModal(ov, id) ==
  [ov EXCEPT !.created = TRUE, !.open = TRUE, !.product = id,
             !.lastFocused = Control("learn", id, TRUE),
             !.focus = Control("close", 0, TRUE)]

\* closeProductModal() with a modal element: the class "open" is removed
\* and the focus timer is started
closeProductModal(ov) ==
  [ov EXCEPT !.open = FALSE, !.timers = @ + 1,
             !.closes = Append(@, [opener |-> ov.lastFocused,
                                   wasOpen |-> ov.open])]

\* the timer callback: lastFocused.focus() on the control remembered when
\* the timer fires, which does nothing for an element that has left the
\* document; the timers have one delay and fire in the order of their start
restoreFocus(ov) ==
  [ov EXCEPT !.timers = @ - 1,
             !.closes = Tail(@),
             !.focus = IF ov.lastFocused.kind # "none" /\ ov.lastFocused.live
                       THEN ov.lastFocused ELSE @]

\* the focus is moved to the "learn more" control of a rendered card; the
\* overlay traps no focus, so this also happens under the open overlay
LearnMoreFocus(id) ==
  /\ \E i \in 1..Len(cards) : cards[i].id = id
  /\ overlay' = [overlay EXCEPT !.focus = Control("learn", id, TRUE)]
  /\ lastEvent' = Event("focus", id, <<>>, "")
  /\ UNCHANGED <<selVars, chatVars, config, wk>>

\* click on the "learn more" control of the card of product id: the click
\* is not propagated to the card
LearnMoreClick(id) ==
  /\ ~overlay.open
  /\ \E i \in 1..Len(cards) : cards[i].id = id
  /\ \E product \in productsById : product.id = id
  /\ overlay' = showProductModal(overlay, id)
  /\ lastEvent' = Event("learnMore", id, <<>>, "")
  /\ UNCHANGED <<selVars, chatVars, config, wk>>

\* Enter or Space on the focused "learn more" control of the card of
\* product id: the keydown event bubbles to the card, whose handler
\* prevents the default action and toggles the selection; whether the
\* control is still activated after that depends on the key and the
\* browser.  The handler tests the key alone, so it also runs under the
\* open overlay
LearnMoreKey(id) ==
  /\ overlay.focus = Control("learn", id, TRUE)
  /\ \E product \in productsById :
       /\ product.id = id
       /\ selectedProducts' = toggleSelection(selectedProducts, product)
  /\ cards' = markCard(cards, id, findIndex(selectedProducts, id) = 0)
  /\ LET u == updateSelectedList(selectedProducts', localStorage)
     IN chips' = u.chips /\ localStorage' = u.storage
  /\ \E activated \in BOOLEAN :
       overlay' = IF activated THEN showProductModal(overlay, id) ELSE overlay
  /\ lastEvent' = Event("learnKey", id, <<>>, "")
  /\ UNCHANGED <<allProducts, productsById, categoryFilter, productSearch,
                 initPc, gridPending, catalogFetches, chatVars, config, wk>>

\* click inside the panel of the open overlay
PanelClick ==
  /\ overlay.open
  /\ lastEvent' = Event("panelClick", 0, <<>>, "")
  /\ UNCHANGED <<selVars, chatVars, frame>>

\* click on the overlay outside its panel
OutsideClick ==
  /\ overlay.open
  /\ overlay.timers < MaxTimers
  /\ overlay' = closeProductModal(overlay)
  /\ lastEvent' = Event("outsideClick", 0, <<>>, "")
  /\ UNCHANGED <<selVars, chatVars, config, wk>>

\* click on the close control, by the pointer while the overlay is open or
\* by Enter or Space while the control holds the focus, which it keeps
\* after a close until a focus timer moves it; the handler tests nothing
CloseControl ==
  /\ overlay.created
  /\ overlay.open \/ overlay.focus = Control("close", 0, TRUE)
  /\ overlay.timers < MaxTimers
  /\ overlay' = closeProductModal(overlay)
  /\ lastEvent' = Event("closeControl", 0, <<>>, "")
  /\ UNCHANGED <<selVars, chatVars, config, wk>>

\* Escape pressed anywhere in the document: onKeyDownForModal is bound once
\* the modal was created, and returns at once when there is no modal
EscapeKey ==
  /\ overlay.timers < MaxTimers
  /\ overlay' = IF overlay.created THEN closeProductModal(overlay) ELSE overlay
  /\ lastEvent' = Event("escape", 0, <<>>, "")
  /\ UNCHANGED <<selVars, chatVars, config, wk>>

\* a focus timer started by closeProductModal() fires
FocusTimer ==
  /\ overlay.timers > 0
  /\ overlay' = restoreFocus(overlay)
  /\ lastEvent' = Event("focusTimer", 0, <<>>, "")
  /\ UNCHANGED <<selVars, chatVars, config, wk>>

ModalNext ==
  \/ \E id \in 1..NumProducts : LearnMoreFocus(id)
  \/ \E id \in 1..NumProducts : LearnMoreClick(id)
  \/ \E id \in 1..NumProducts : LearnMoreKey(id)
  \/ PanelClick
  \/ OutsideClick
  \/ CloseControl
  \/ EscapeKey
  \/ FocusTimer

\* The overlay with the part of the page that renders the cards.
ModalEnv ==
  \/ InitLoadOk
  \/ InitLoadFail
  \/ \E c \in Categories : CategoryChange(c)

ModalInit ==
  /\ Init
  /\ localStorage.kind = "absent"
  /\ ~searchProxy
  /\ workerShape = "proxy"

ModalSpec == ModalInit /\ [][ModalEnv \/ ModalNext]_vars

(***************************************************************************)
(* Conversation pipeline.                                                  *)
(***************************************************************************)
Msg(role, kind, payload, text, results) ==
  [role |-> role, kind |-> kind, payload |-> payload, text |-> text,
   results |-> results]

\* the constant systemInstruction
systemInstruction == Msg("system", "instruction", <<>>, <<>>, 0)

\* productsPayload and userMsg of the generate handler
userMsg(sel) ==
  Msg("user", "products",
      [i \in 1..Len(sel) |-> [name |-> sel[i].name, category |-> sel[i].category]],
      <<>>, 0)

\* the system message built from webResults.slice(0, 6)
webMsg(n) == Msg("system", "web", <<>>, <<>>, Min(n, MaxWebShown))

questionMsg(text) == Msg("user", "question", <<>>, text, 0)

assistantMsg(content) == Msg("assistant", "reply", <<>>, content, 0)

\* callOpenAIWithMessages(): the content taken from a successful response:
\* data.choices[0].message.content when the body has choices, else the
\* body as JSON text
extractContent(data) ==
  IF data.shape = "choices" THEN data.text
  ELSE <<"{">> \o data.text \o <<"}">>

\* the results put in front of the Transcript (unshift), as the worker does
addWebResultsUnshift(messages, n) ==
  IF n > 0 THEN <<webMsg(n)>> \o messages ELSE messages

\* the results pushed without the test for an empty result list
addWebResultsAlways(messages, n) == Append(messages, webMsg(n))

\* the handlers' step after performWebSearch(): a system message with the
\* results is pushed when there are any
addWebResults(messages, n) ==
  IF n > 0 THEN Append(messages, webMsg(n)) ELSE messages

\* the body of a successful response of the chat endpoint: the worker of
\* this repository answers {reply, web_results, openai}; a worker that
\* forwards the provider's chat-completions answer has choices
responseBody(shape) == [shape |-> shape, text |-> <<"o","k">>]

\* numbers of results a search lookup that succeeds may return
WebCounts == {0, 7}

\* values of the question box at submit
InputValues == {<<>>, <<" ">>, <<"q"," ">>}

\* generate handler with a non-empty selection: resets the Transcript,
\* disables the control and starts the search lookup (the proxy call at
\* once when no search proxy is configured)
GenerateStart ==
  /\ conversationMessages' = <<systemInstruction, userMsg(selectedProducts)>>
  /\ lastPayload' = userMsg(selectedProducts)
  /\ generateBtnDisabled' = TRUE
  /\ lastEvent' = Event("generate", 0, <<>>, "generating")
  /\ gen' = [pc |-> IF searchProxy THEN "search" ELSE "proxy", web |-> 0,
             failed |-> FALSE]

\* the notice without the return after it
GenerateNoticeNoReturn == GenerateStart

\* generate handler with an empty selection: the notice, and return
GenerateNotice ==
  /\ lastEvent' = Event("generate", 0, <<>>, "select-first")
  /\ UNCHANGED <<conversationMessages, generateBtnDisabled, gen, lastPayload>>

\* generateBtn "click"
GenerateClick ==
  /\ ~generateBtnDisabled
  /\ IF Len(selectedProducts) = 0 THEN GenerateNotice ELSE GenerateStart
  /\ UNCHANGED <<selVars, frame, routineGenerated, sendBtnDisabled,
                 followUps>>

\* generate handler: performWebSearch() returned n results
GenSearchReturn(n) ==
  /\ gen.pc = "search"
  /\ conversationMessages' = addWebResults(conversationMessages, n)
  /\ gen' = [pc |-> "proxy", web |-> n, failed |-> FALSE]
  /\ lastEvent' = Event("genSearch", 0, <<>>, "")
  /\ UNCHANGED <<selVars, frame, routineGenerated, generateBtnDisabled,
                 sendBtnDisabled, followUps, lastPayload>>

\* generate handler: the search lookup threw or answered with a non-success
\* status; performWebSearch() catches it and returns []
GenSearchFail ==
  /\ gen.pc = "search"
  /\ conversationMessages' = addWebResults(conversationMessages, 0)
  /\ gen' = [pc |-> "proxy", web |-> 0, failed |-> TRUE]
  /\ lastEvent' = Event("genSearch", 0, <<>>, "")
  /\ UNCHANGED <<selVars, frame, routineGenerated, generateBtnDisabled,
                 sendBtnDisabled, followUps, lastPayload>>

\* generate handler: callOpenAIWithMessages() returned
GenProxyOk ==
  /\ gen.pc = "proxy"
  /\ conversationMessages' =
       Append(conversationMessages,
              assistantMsg(extractContent(responseBody(workerShape))))
  /\ routineGenerated' = TRUE
  /\ generateBtnDisabled' = FALSE
  /\ gen' = GenIdle
  /\ lastEvent' = Event("genDone", 0, <<>>,
                        IF gen.web > 0 THEN "citations" ELSE "reply")
  /\ UNCHANGED <<selVars, frame, sendBtnDisabled, followUps, lastPayload>>

\* the catch block without the finally block after it
GenProxyFailNoFinally ==
  /\ gen.pc = "proxy"
  /\ gen' = [pc |-> "failed", web |-> gen.web, failed |-> gen.failed]
  /\ lastEvent' = Event("genFailed", 0, <<>>, "error-generating")
  /\ UNCHANGED <<selVars, frame, conversationMessages, routineGenerated,
                 generateBtnDisabled, sendBtnDisabled, followUps, lastPayload>>

\* generate handler: callOpenAIWithMessages() threw (network error or a
\* non-success status)
GenProxyFail ==
  /\ gen.pc = "proxy"
  /\ generateBtnDisabled' = FALSE
  /\ gen' = GenIdle
  /\ lastEvent' = Event("genFailed", 0, <<>>, "error-generating")
  /\ UNCHANGED <<selVars, frame, conversationMessages, routineGenerated,
                 sendBtnDisabled, followUps, lastPayload>>

\* the slot a new follow-up handler takes
FreeSlot ==
  CHOOSE f \in 1..MaxFollowUps :
    followUps[f].pc = "idle" /\ \A g \in 1..(f - 1) : followUps[g].pc # "idle"

\* submit handler once a routine was generated: pushes the question and
\* starts the search lookup; the send control is disabled only after the
\* lookup, so at once only when no search proxy is configured
SubmitFollowUp(text) ==
  /\ \E f \in 1..MaxFollowUps : followUps[f].pc = "idle"
  /\ Len(conversationMessages) < MaxTranscript
  /\ conversationMessages' = Append(conversationMessages, questionMsg(text))
  /\ lastEvent' = Event("submit", 0, <<>>, "user")
  /\ followUps' =
       [followUps EXCEPT ![FreeSlot] =
          [pc |-> IF searchProxy THEN "search" ELSE "proxy",
           text |-> text, web |-> 0, pushed |-> 1, failed |-> FALSE]]
  /\ sendBtnDisabled' = IF searchProxy THEN sendBtnDisabled ELSE TRUE

\* the instruction without the return after it
SubmitNoticeNoReturn(text) == SubmitFollowUp(text)

\* submit handler before any routine was generated: the instruction, and
\* return
SubmitNotice(text) ==
  /\ lastEvent' = Event("submit", 0, <<>>, "generate-first")
  /\ UNCHANGED <<conversationMessages, followUps, sendBtnDisabled>>

\* chatForm "submit" with the question box holding value; with nothing but
\* blanks in the box the handler returns at once
ChatSubmit(value) ==
  /\ ~sendBtnDisabled
  /\ LET text == trim(value)
     IN IF text = <<>>
        THEN UNCHANGED <<conversationMessages, followUps, sendBtnDisabled,
                         lastEvent>>
        ELSE IF ~routineGenerated THEN SubmitNotice(text)
        ELSE SubmitFollowUp(text)
  /\ UNCHANGED <<selVars, frame, routineGenerated, generateBtnDisabled,
                 gen, lastPayload>>

\* follow-up handler f: performWebSearch() returned n results
FuSearchReturn(f, n) ==
  /\ followUps[f].pc = "search"
  /\ conversationMessages' = addWebResults(conversationMessages, n)
  /\ sendBtnDisabled' = TRUE
  /\ followUps' =
       [followUps EXCEPT ![f] =
          [pc |-> "proxy", text |-> @.text, web |-> n,
           pushed |-> @.pushed + Len(conversationMessages')
                                - Len(conversationMessages),
           failed |-> FALSE]]
  /\ lastEvent' = Event("fuSearch", 0, <<>>, "")
  /\ UNCHANGED <<selVars, frame, routineGenerated, generateBtnDisabled,
                 gen, lastPayload>>

\* follow-up handler f: the search lookup threw or answered with a
\* non-success status; performWebSearch() catches it and returns []
FuSearchFail(f) ==
  /\ followUps[f].pc = "search"
  /\ conversationMessages' = addWebResults(conversationMessages, 0)
  /\ sendBtnDisabled' = TRUE
  /\ followUps' =
       [followUps EXCEPT ![f] =
          [pc |-> "proxy", text |-> @.text, web |-> 0, pushed |-> @.pushed,
           failed |-> TRUE]]
  /\ lastEvent' = Event("fuSearch", 0, <<>>, "")
  /\ UNCHANGED <<selVars, frame, routineGenerated, generateBtnDisabled,
                 gen, lastPayload>>

\* follow-up handler f: callOpenAIWithMessages() returned
FuProxyOk(f) ==
  /\ followUps[f].pc = "proxy"
  /\ conversationMessages' =
       Append(conversationMessages,
              assistantMsg(extractContent(responseBody(workerShape))))
  /\ sendBtnDisabled' = FALSE
  /\ followUps' = [followUps EXCEPT ![f] = Idle]
  /\ lastEvent' = Event("fuDone", 0, <<>>,
                        IF followUps[f].web > 0 THEN "citations" ELSE "reply")
  /\ UNCHANGED <<selVars, frame, routineGenerated, generateBtnDisabled,
                 gen, lastPayload>>

\* the catch block calling the proxy again in place of showing the error
FuProxyFailRetry(f) ==
  /\ followUps[f].pc = "proxy"
  /\ lastEvent' = Event("fuFailed", 0, <<>>, "")
  /\ UNCHANGED <<selVars, frame, conversationMessages, routineGenerated,
                 generateBtnDisabled, sendBtnDisabled, gen, followUps,
                 lastPayload>>

\* the catch block taking the entries of the failed exchange back out of
\* the Transcript
FuProxyFailRollback(f) ==
  /\ followUps[f].pc = "proxy"
  /\ sendBtnDisabled' = FALSE
  /\ followUps' = [followUps EXCEPT ![f] = Idle]
  /\ lastEvent' = Event("fuFailed", 0, <<>>, "error")
  /\ conversationMessages' =
       SubSeq(conversationMessages, 1,
              Len(conversationMessages) - Min(followUps[f].pushed,
                                              Len(conversationMessages)))
  /\ UNCHANGED <<selVars, frame, routineGenerated, generateBtnDisabled, gen,
                 lastPayload>>

\* follow-up handler f: callOpenAIWithMessages() threw
FuProxyFail(f) ==
  /\ followUps[f].pc = "proxy"
  /\ sendBtnDisabled' = FALSE
  /\ followUps' = [followUps EXCEPT ![f] = Idle]
  /\ lastEvent' = Event("fuFailed", 0, <<>>, "error")
  /\ UNCHANGED <<selVars, frame, conversationMessages, routineGenerated,
                 generateBtnDisabled, gen, lastPayload>>

\* the continuations that run when a network call returns or fails
NetworkReturns ==
  \/ \E n \in WebCounts : GenSearchReturn(n)
  \/ GenSearchFail
  \/ GenProxyOk
  \/ GenProxyFail
  \/ \E f \in 1..MaxFollowUps, n \in WebCounts : FuSearchReturn(f, n)
  \/ \E f \in 1..MaxFollowUps : FuSearchFail(f)
  \/ \E f \in 1..MaxFollowUps : FuProxyOk(f)
  \/ \E f \in 1..MaxFollowUps : FuProxyFail(f)

ChatNext ==
  \/ GenerateClick
  \/ \E value \in InputValues : ChatSubmit(value)
  \/ NetworkReturns

\* the page is loaded again: the script starts from its initial state, and
\* only the storage item is kept
Reload ==
  /\ allProducts' = <<>>
  /\ selectedProducts' = <<>>
  /\ productsById' = {}
  /\ cards' = <<>>
  /\ chips' = <<>>
  /\ categoryFilter' = ""
  /\ productSearch' = <<>>
  /\ initPc' = "loading"
  /\ gridPending' = 0
  /\ catalogFetches' = 1
  /\ conversationMessages' = <<>>
  /\ routineGenerated' = FALSE
  /\ generateBtnDisabled' = FALSE
  /\ sendBtnDisabled' = FALSE
  /\ gen' = GenIdle
  /\ followUps' = [f \in 1..MaxFollowUps |-> Idle]
  /\ lastPayload' = <<>>
  /\ overlay' = OverlayInit
  /\ lastEvent' = Event("reload", 0, <<>>, "")
  /\ UNCHANGED <<localStorage, config, wk>>

\* Selections made, saved, and read back by the next load of the page.
ReloadNext ==
  \/ InitLoadOk
  \/ InitLoadFail
  \/ \E c \in Categories : CategoryChange(c)
  \/ GridLoadOk
  \/ GridLoadFail
  \/ \E id \in 1..NumProducts : CardToggle(id)
  \/ \E id \in 1..NumProducts : ChipRemove(id)
  \/ ClearAll
  \/ Reload

ReloadInit ==
  /\ Init
  /\ localStorage.kind = "absent"
  /\ ~searchProxy
  /\ workerShape = "proxy"

ReloadSpec == ReloadInit /\ [][ReloadNext]_vars

Next == SelNext \/ ModalNext \/ ChatNext \/ ProxyNext \/ CombinedNext \/ Reload

\* the whole client
Spec == Init /\ [][Next]_vars

\* The conversation pipeline with the part of the client that decides the
\* Selection Set it reads.  The conversation handlers read nothing of the
\* grid and of storage, and of the Selection Set only its entries at the
\* click on Generate; here the Selection Set is filled by the startup
\* rehydration and reduced by chip removal and clear-all.  Card toggles and
\* the grid filters are checked under SelSpec.
ChatEnv ==
  \/ InitLoadOk
  \/ InitLoadFail
  \/ \E id \in 1..NumProducts : ChipRemove(id)
  \/ ClearAll

\* The page loads with no stored selection or with a stored one, and the
\* chat endpoint is the worker of this repository.
ChatInit ==
  /\ Init
  /\ localStorage \in {[kind |-> "absent", ids |-> <<>>],
                        [kind |-> "array", ids |-> <<NumProducts, 1>>]}
  /\ workerShape = "proxy"

ChatSpec == ChatInit /\ [][ChatEnv \/ ChatNext]_vars

\* Every network call returns or fails: each suspended handler is resumed.
Fairness ==
  /\ WF_vars((\E n \in WebCounts : GenSearchReturn(n)) \/ GenSearchFail)
  /\ WF_vars(GenProxyOk \/ GenProxyFail)
  /\ \A f \in 1..MaxFollowUps :
       /\ WF_vars((\E n \in WebCounts : FuSearchReturn(f, n)) \/ FuSearchFail(f))
       /\ WF_vars(FuProxyOk(f) \/ FuProxyFail(f))

\* For the liveness of the controls the Selection Set matters only by
\* being empty or not: it is taken from the startup rehydration and emptied
\* by clear-all.
FairEnv == InitLoadOk \/ InitLoadFail \/ ClearAll

FairSpec == ChatInit /\ [][FairEnv \/ ChatNext]_vars /\ Fairness

\* The workers alone, beside a page that is left as it loads.
ProxyInit ==
  /\ Init
  /\ localStorage.kind = "absent"
  /\ ~searchProxy
  /\ workerShape = "proxy"

ProxySpec == ProxyInit /\ [][ProxyNext]_vars

(***************************************************************************)
(* Properties.                                                             *)
(***************************************************************************)
SelectionMutations == {"toggle", "learnKey", "chipRemove", "clearAll"}

InFlight(h) == h.pc \in {"search", "proxy"}

\* C1: after every Selection Set mutation (card toggle, chip removal,
\* clear-all) the item in storage is the id list of the Selection Set, in
\* its order, whatever the size of the Selection Set.
C1_PersistedAfterMutation ==
  [][lastEvent'.op \in SelectionMutations
       => localStorage' = [kind |-> "array", ids |-> idsOf(selectedProducts')]]_vars

\* C2 as stated: toggling a rendered product twice in a row gives back the
\* Selection Set of before the two toggles, members and order, whether the
\* product was selected or not.
C2_ToggleTwiceRestoresOrder ==
  (lastEvent.op = "toggle" /\ lastEvent.again)
    => selectedProducts = lastEvent.first

\* C2 amended: toggling a rendered product twice in a row gives back the
\* same members; the order is the one of before when the product was not
\* selected or was the last entry, else the product has moved to the end
\* and the other entries keep their relative order.
C2_ToggleTwice ==
  (lastEvent.op = "toggle" /\ lastEvent.again)
    => LET first == lastEvent.first
           index == findIndex(first, lastEvent.id)
       IN /\ {selectedProducts[i] : i \in 1..Len(selectedProducts)}
               = {first[i] : i \in 1..Len(first)}
          /\ Len(selectedProducts) = Len(first)
          /\ IF index = 0 \/ index = Len(first)
             THEN selectedProducts = first
             ELSE selectedProducts = Append(splice(first, index), first[index])

\* C2 witness: a selected product that was not the last entry has been
\* toggled twice in a row.
C2_Witness ==
  /\ lastEvent.op = "toggle" /\ lastEvent.again
  /\ findIndex(lastEvent.first, lastEvent.id) \in 1..(Len(lastEvent.first) - 1)

\* C3: Generate with an empty Selection Set issues no network call, shows
\* the notice and leaves the Transcript, the "routine generated" flag and
\* the generate control as they were.
C3_GenerateEmpty ==
  [][(lastEvent'.op = "generate" /\ Len(selectedProducts) = 0)
       => /\ gen' = gen /\ ~InFlight(gen')
          /\ followUps' = followUps
          /\ lastEvent'.shown = "select-first"
          /\ conversationMessages' = conversationMessages
          /\ routineGenerated' = routineGenerated
          /\ generateBtnDisabled' = generateBtnDisabled]_vars

\* C3 witness: Generate was triggered with an empty Selection Set after a
\* routine had been generated.
C3_Witness ==
  /\ lastEvent.op = "generate" /\ lastEvent.shown = "select-first"
  /\ Len(selectedProducts) = 0
  /\ routineGenerated /\ Len(conversationMessages) > 0

\* C4: a non-empty Transcript starts with the system instruction followed
\* by the product-list user message of the most recent Generate.
C4_TranscriptHead ==
  Len(conversationMessages) > 0
    => /\ Len(conversationMessages) >= 2
       /\ conversationMessages[1] = systemInstruction
       /\ conversationMessages[2] = lastPayload
       /\ lastPayload.kind = "products"

\* C4 witness: a Transcript that holds search results, a follow-up question
\* and replies behind its two leading entries.
C4_Witness ==
  /\ Len(conversationMessages) >= 5
  /\ \E i \in 3..Len(conversationMessages) : conversationMessages[i].kind = "web"
  /\ \E i \in 3..Len(conversationMessages) : conversationMessages[i].kind = "question"
  /\ conversationMessages[Len(conversationMessages)].kind = "reply"

\* C5 as stated: a follow-up has appended exactly two entries when its
\* proxy call succeeds and exactly one when it fails, for every outcome of
\* the search lookup.
C5_GrowsByTwoOrOne ==
  [][\A f \in 1..MaxFollowUps :
       (followUps[f].pc = "proxy" /\ followUps'[f].pc = "idle")
         => followUps[f].pushed
              + Len(conversationMessages') - Len(conversationMessages)
            = IF lastEvent'.op = "fuDone" THEN 2 ELSE 1]_vars

\* C5 amended: a follow-up appends one user entry, then one system entry
\* with the search results when the lookup returned at least one result,
\* and one assistant entry when the proxy call succeeds and none when it
\* fails: two entries on success and one on failure when the lookup
\* returned nothing, three and two when it returned results.
C5_FollowUpAppends ==
  [][\A f \in 1..MaxFollowUps :
       /\ (followUps[f].pc = "idle" /\ followUps'[f].pc # "idle")
            => /\ conversationMessages' =
                    Append(conversationMessages,
                           questionMsg(followUps'[f].text))
               /\ followUps'[f].pushed = 1
       /\ (followUps[f].pc = "search" /\ followUps'[f].pc = "proxy")
            => /\ conversationMessages' =
                    IF followUps'[f].web > 0
                    THEN Append(conversationMessages, webMsg(followUps'[f].web))
                    ELSE conversationMessages
               /\ followUps'[f].pushed =
                    1 + IF followUps'[f].web > 0 THEN 1 ELSE 0
       /\ (followUps[f].pc = "proxy" /\ followUps'[f].pc = "idle")
            => /\ IF lastEvent'.op = "fuDone"
                  THEN /\ Len(conversationMessages')
                            = Len(conversationMessages) + 1
                       /\ conversationMessages'[Len(conversationMessages')].role
                            = "assistant"
                       /\ SubSeq(conversationMessages', 1, Len(conversationMessages))
                            = conversationMessages
                  ELSE conversationMessages' = conversationMessages
               /\ followUps[f].pushed
                    + Len(conversationMessages') - Len(conversationMessages)
                  = (IF followUps[f].web > 0 THEN 1 ELSE 0)
                    + (IF lastEvent'.op = "fuDone" THEN 2 ELSE 1)]_vars

\* C5 witness: a follow-up whose search lookup returned results has ended
\* with a successful proxy call.
C5_Witness ==
  /\ lastEvent.op = "fuDone" /\ lastEvent.shown = "citations"
  /\ Len(conversationMessages) >= 6
  /\ conversationMessages[Len(conversationMessages)].role = "assistant"

\* C6: the Selection Set never holds two entries with the same product id.
C6_NoDuplicateIds ==
  \A i, j \in 1..Len(selectedProducts) :
    selectedProducts[i].id = selectedProducts[j].id => i = j

\* C6 witness: the startup rehydration has filled the Selection Set with
\* every product of the catalog the stored list names.
C6_Witness ==
  /\ lastEvent.op = "initLoaded"
  /\ Len(selectedProducts) >= 2

\* C7: a follow-up submitted while "routine generated" is false issues no
\* network call, appends nothing to the Transcript and shows the
\* instruction to generate first; a follow-up handler is in flight only
\* while "routine generated" is true.
C7_FollowUpNeedsRoutine ==
  /\ [][(lastEvent'.op = "submit" /\ ~routineGenerated)
          => /\ followUps' = followUps
             /\ gen' = gen
             /\ conversationMessages' = conversationMessages
             /\ sendBtnDisabled' = sendBtnDisabled
             /\ lastEvent'.shown = "generate-first"]_vars
  /\ [](\A f \in 1..MaxFollowUps : InFlight(followUps[f]) => routineGenerated)

\* C7 witness: a follow-up was submitted after a Generate that failed, so
\* with a Transcript but no routine.
C7_Witness ==
  /\ lastEvent.op = "submit" /\ lastEvent.shown = "generate-first"
  /\ ~routineGenerated
  /\ Len(conversationMessages) > 0

\* C8: while a network call of Generate is in flight the generate control
\* is disabled, and while a network call of a Follow-up (search lookup or
\* proxy call) is in flight the send control is disabled.
C8_ControlsDisabledInFlight ==
  /\ InFlight(gen) => generateBtnDisabled
  /\ \A f \in 1..MaxFollowUps : InFlight(followUps[f]) => sendBtnDisabled

\* C9: when every network call returns or fails, a disabled generate
\* control and a disabled send control are enabled again.
C9_ControlsRestored ==
  /\ generateBtnDisabled ~> ~generateBtnDisabled
  /\ sendBtnDisabled ~> ~sendBtnDisabled

\* C9 witness: the generate control is enabled again after a proxy call
\* that failed, while a follow-up has the send control disabled.
C9_Witness ==
  /\ lastEvent.op = "genFailed"
  /\ ~generateBtnDisabled
  /\ sendBtnDisabled

\* C10: Generate and Follow-up handlers never overlap: at most one of them
\* is awaiting a network call.
C10_NoOverlap ==
  Cardinality({f \in 1..MaxFollowUps : InFlight(followUps[f])})
    + (IF InFlight(gen) THEN 1 ELSE 0) <= 1

\* C11 as stated: a Generate or Follow-up during which a network call threw
\* or answered with a non-success status (the search lookup or the proxy
\* call) ends by showing an inline error message.
C11_FailureShowsError ==
  [][/\ (gen.pc = "proxy" /\ gen'.pc = "idle"
           /\ (gen.failed \/ lastEvent'.op = "genFailed"))
          => lastEvent'.shown = "error-generating"
     /\ \A f \in 1..MaxFollowUps :
          (followUps[f].pc = "proxy" /\ followUps'[f].pc = "idle"
             /\ (followUps[f].failed \/ lastEvent'.op = "fuFailed"))
            => lastEvent'.shown = "error"]_vars

\* C11 amended: a failed proxy call ends the handler with an inline error
\* message, the Transcript as it was and no further network call; a failed
\* search lookup shows no message and is treated as a lookup without
\* results, the handler going on to its one proxy call; a handler issues
\* each of its calls once.
C11_FailureHandling ==
  [][/\ lastEvent'.op = "genFailed"
          => /\ gen.pc = "proxy" /\ gen' = GenIdle
             /\ lastEvent'.shown = "error-generating"
             /\ conversationMessages' = conversationMessages
             /\ followUps' = followUps
     /\ lastEvent'.op = "fuFailed"
          => /\ \E f \in 1..MaxFollowUps :
                  /\ followUps[f].pc = "proxy"
                  /\ followUps' = [followUps EXCEPT ![f] = Idle]
             /\ lastEvent'.shown = "error"
             /\ conversationMessages' = conversationMessages
             /\ gen' = gen
     /\ (gen.pc = "search" /\ gen' # gen)
          => /\ gen'.pc = "proxy"
             /\ gen'.failed => /\ conversationMessages' = conversationMessages
                               /\ lastEvent'.shown = ""
                               /\ gen'.web = 0
     /\ (gen.pc = "proxy" /\ gen' # gen) => gen' = GenIdle
     /\ \A f \in 1..MaxFollowUps :
          /\ (followUps[f].pc = "search" /\ followUps'[f] # followUps[f])
               => /\ followUps'[f].pc = "proxy"
                  /\ followUps'[f].failed
                       => /\ conversationMessages' = conversationMessages
                          /\ lastEvent'.shown = ""
                          /\ followUps'[f].web = 0
          /\ (followUps[f].pc = "proxy" /\ followUps'[f] # followUps[f])
               => followUps'[f] = Idle]_vars

\* C11 witness: a follow-up has just ended with the error message of its
\* failed proxy call while a Generate whose search lookup failed awaits its
\* proxy call.
C11_Witness ==
  /\ lastEvent.op = "fuFailed" /\ lastEvent.shown = "error"
  /\ gen.pc = "proxy" /\ gen.failed

\* a grid update has just completed: one called with the catalog held, the
\* one at the end of init(), or one whose own catalog fetch resolved
GridUpdated ==
  \/ lastEvent.op = "gridLoaded"
  \/ lastEvent.op \in {"category", "search", "chipClick"} /\ Len(allProducts) > 0
  \/ lastEvent.op = "initLoaded" /\ localStorage.kind # "invalid"

\* the product is one the filters of the page ask for
MatchesFilters(p) ==
  /\ categoryFilter = "" \/ p.category = categoryFilter
  /\ includes(toLowerCase(p.name), toLowerCase(trim(productSearch)))

\* C12: after a grid update completes, the rendered cards are exactly the
\* catalog products whose category is the chosen one (all when none is
\* chosen) and whose name contains the trimmed search term whatever the
\* case, in catalog order.
C12_GridShowsMatches ==
  GridUpdated
    => [i \in 1..Len(cards) |-> cards[i].id]
         = idsOf(SelectSeq(Catalog, MatchesFilters))

\* C12 witness: a grid update completed with a category chosen and a search
\* term typed, showing some of the catalog and not all of it.
C12_Witness ==
  /\ GridUpdated
  /\ categoryFilter # ""
  /\ trim(productSearch) # <<>>
  /\ Len(cards) \in 1..(NumProducts - 1)

\* C13: when the chat endpoint answers successfully with a body of the
\* shape {reply, web_results, openai}, the assistant entry that Generate or
\* Follow-up appends has the reply field of that body as its content.
C13_AssistantIsReply ==
  [][(lastEvent'.op \in {"genDone", "fuDone"} /\ workerShape = "proxy")
       => /\ Len(conversationMessages') = Len(conversationMessages) + 1
          /\ conversationMessages'[Len(conversationMessages')].role = "assistant"
          /\ conversationMessages'[Len(conversationMessages')].text
               = responseBody("proxy").text]_vars

\* a worker was sent a JSON POST to /search with a query that is not blank
\* while no key of a search backend is bound in its environment
NoBackendSearch ==
  /\ wk.pc # "idle"
  /\ wk.req.method = "POST"
  /\ endsWith(trimSlash(wk.req.path), SearchSuffix)
  /\ includes(wk.req.contentType, ApplicationJson)
  /\ wk.req.body.valid
  /\ trim(wk.req.body.q) # <<>>
  /\ IF wk.worker = "combined" THEN ~wk.env.openai
     ELSE ~wk.env.serp /\ ~(wk.env.google /\ wk.env.cx)

\* C14 as stated: a POST to /search with a non-empty query and no search
\* backend key configured is answered with status 400 and an error body,
\* and no request is sent to a search provider.
C14_NoBackendIs400 ==
  NoBackendSearch
    => /\ wk.pc = "done"
       /\ wk.resp.status = 400 /\ wk.resp.kind = "error"
       /\ wk.calls = <<>>

\* a worker was sent a POST to /chat or /search whose content type is not
\* JSON
NonJsonPost ==
  /\ wk.pc # "idle"
  /\ wk.req.method = "POST"
  /\ \/ wk.worker = "combined" /\ endsWith(trimSlash(wk.req.path), ChatSuffix)
     \/ endsWith(trimSlash(wk.req.path), SearchSuffix)
  /\ ~includes(wk.req.contentType, ApplicationJson)

\* C15 as stated: a POST to /chat or /search whose content type is not JSON
\* is answered with status 400 and no upstream call is made for it.
C15_NonJsonIs400 ==
  NonJsonPost
    => /\ wk.pc = "done"
       /\ wk.resp.status = 400
       /\ wk.calls = <<>>

\* the combined worker was sent a POST to /chat with a JSON body
ChatHandled ==
  /\ wk.pc # "idle"
  /\ wk.worker = "combined"
  /\ wk.req.method = "POST"
  /\ endsWith(trimSlash(wk.req.path), ChatSuffix)
  /\ includes(wk.req.contentType, ApplicationJson)
  /\ wk.req.body.valid

\* the content of the last user-role entry of a transcript, empty when it
\* has none
LastUserContent(items) ==
  LET users == {i \in 1..Len(items) : items[i].role = "user"}
  IN IF users = {} THEN <<>>
     ELSE items[CHOOSE i \in users : \A j \in users : j <= i].content

\* the transcript the client supplied
SuppliedTranscript ==
  IF wk.req.body.messages.kind = "array"
  THEN wk.req.body.messages.items ELSE <<>>

\* C16 as stated, its first clause: the search query of POST /chat is the
\* explicit message string when a non-empty one is given, otherwise the
\* content of the last user-role entry of the supplied transcript.
C16_QueryIsMessage ==
  ChatHandled
    => wk.q = IF /\ wk.req.body.message.kind = "string"
                 /\ wk.req.body.message.text # <<>>
              THEN wk.req.body.message.text
              ELSE LastUserContent(SuppliedTranscript)


\* C17: activating the "learn more" control of a card, by click or by
\* Enter/Space while it has the focus, opens the Detail Overlay for the
\* product of the card and leaves the Selection Set and the selected
\* indicators of the cards unchanged.
C17_LearnMoreLeavesSelection ==
  [][lastEvent'.op \in {"learnMore", "learnKey"}
       => /\ overlay'.open
          /\ overlay'.product = lastEvent'.id
          /\ selectedProducts' = selectedProducts
          /\ cards' = cards]_vars

\* C18: from Open, a click outside the panel, the close control and Escape
\* each close the Detail Overlay and start the focus timer, and a click
\* inside the panel leaves it open; when the timer of such a close fires,
\* the focus is given to the control that had opened the overlay that was
\* closed.  The focus clause is read with the guard of the specification:
\* nothing is required when a re-render has removed that control.
C18_FocusAlwaysRestored ==
  [][/\ (lastEvent'.op \in {"outsideClick", "closeControl", "escape"}
         /\ overlay.open)
          => ~overlay'.open /\ overlay'.timers = overlay.timers + 1
     /\ lastEvent'.op = "panelClick" => overlay.open /\ overlay'.open
     /\ (/\ lastEvent'.op = "focusTimer"
         /\ Head(overlay.closes).wasOpen
         /\ Head(overlay.closes).opener.live)
          => overlay'.focus = Head(overlay.closes).opener]_vars


\* C19: removing the chip of product p removes exactly p from the Selection
\* Set and keeps the other entries in their order, clears the selected
\* indicator of the card of p where it is rendered, and leaves the category
\* filter, the search term and the rendered cards as they were.
C19_ChipRemoveFrame ==
  [][lastEvent'.op = "chipRemove"
       => LET p == lastEvent'.id
          IN /\ \E i \in 1..Len(selectedProducts) : selectedProducts[i].id = p
             /\ selectedProducts' =
                  SelectSeq(selectedProducts, LAMBDA x : x.id # p)
             /\ Len(selectedProducts') = Len(selectedProducts) - 1
             /\ Len(cards') = Len(cards)
             /\ \A i \in 1..Len(cards) :
                  /\ cards'[i].id = cards[i].id
                  /\ cards'[i].selected =
                       IF cards[i].id = p THEN FALSE ELSE cards[i].selected
             /\ categoryFilter' = categoryFilter
             /\ productSearch' = productSearch]_vars

\* a chip was removed while its card was rendered, and two products stay
\* selected, in an order that is not the order of the catalog, and saved
C19_Witness ==
  /\ lastEvent.op = "chipRemove"
  /\ idsOf(selectedProducts) = <<3, 1>>
  /\ localStorage = [kind |-> "array", ids |-> <<3, 1>>]
  /\ \E i \in 1..Len(cards) : cards[i].id = lastEvent.id /\ ~cards[i].selected
  /\ \E i \in 1..Len(cards) : cards[i].selected


\* C20: over any run of the client the catalog document is fetched once:
\* no category or search change, whenever it happens, starts a second
\* catalog fetch.
C20_CatalogFetchedOnce == catalogFetches <= 1


\* the products of the catalog document, as a set
CatalogProducts == {Catalog[i] : i \in 1..Len(Catalog)}

\* C21: when the startup load completes with a non-empty stored id list,
\* the Selection Set becomes exactly the catalog products whose ids occur
\* in the stored list, stored ids the catalog does not hold being dropped;
\* and every entry of the Selection Set is a full catalog product.
C21_RehydratedFromCatalog ==
  /\ [](\A i \in 1..Len(selectedProducts) :
          selectedProducts[i] \in CatalogProducts)
  /\ [][(lastEvent'.op = "initLoaded" /\ localStorage.kind = "array"
           /\ Len(localStorage.ids) > 0)
          => /\ {selectedProducts'[i] : i \in 1..Len(selectedProducts')}
                  = {p \in CatalogProducts :
                       \E k \in 1..Len(localStorage.ids) :
                         localStorage.ids[k] = p.id}
             /\ Len(selectedProducts') =
                  Cardinality({selectedProducts'[i].id :
                                 i \in 1..Len(selectedProducts')})]_vars

\* the startup load has just rehydrated the Selection Set from the stored
\* list: it holds the first product of the catalog and nothing else
C21_Witness ==
  /\ lastEvent.op = "initLoaded"
  /\ initPc = "done"
  /\ Len(selectedProducts) = 1
  /\ selectedProducts[1] = Catalog[1]
  /\ allProducts = Catalog
  /\ localStorage.kind = "array"


\* the Transcript holds a reply of the assistant
HoldsReply(messages) ==
  \E i \in 1..Len(messages) : messages[i].role = "assistant"

\* C22: whenever "routine generated" is true and no Generate is in flight,
\* the Transcript holds the reply of the assistant to the most recent
\* Generate; so a follow-up is sent to the proxy only with a Transcript
\* that holds a generated routine, also after a later Generate has failed.
C22_RoutineInTranscript ==
  /\ (routineGenerated /\ gen.pc = "idle")
       => HoldsReply(conversationMessages)
  /\ \A f \in 1..MaxFollowUps :
       (followUps[f].pc = "proxy" /\ gen.pc = "idle")
         => HoldsReply(conversationMessages)


\* conversationMessages.push(...): s is what t began with
IsPrefix(s, t) == Len(s) <= Len(t) /\ SubSeq(t, 1, Len(s)) = s

\* the step is the catch block of follow-up handler f
FollowUpFails(f) ==
  /\ followUps[f].pc = "proxy"
  /\ followUps'[f].pc = "idle"
  /\ lastEvent'.op = "fuFailed"

\* C23 as stated: when the proxy call of a follow-up fails, the Transcript
\* after the failure is the Transcript before that follow-up was submitted:
\* the entries the follow-up pushed are gone.
C23_FailureRestoresTranscript ==
  [][\A f \in 1..MaxFollowUps :
       FollowUpFails(f)
         => Len(conversationMessages')
              = Len(conversationMessages) - followUps[f].pushed]_vars

\* C23 amended: when the proxy call of a follow-up fails, the Transcript is
\* left as it was at the failure: the question pushed at submit and the
\* system entry with the search results, when the lookup returned any,
\* stay in it, and only a new Generate takes entries out of the Transcript.
C23_FailedExchangeStays ==
  [][/\ \A f \in 1..MaxFollowUps :
          /\ FollowUpFails(f)
               => /\ conversationMessages' = conversationMessages
                  /\ followUps[f].pushed
                       = 1 + (IF followUps[f].web > 0 THEN 1 ELSE 0)
          /\ (followUps[f].pc = "idle" /\ followUps'[f].pc # "idle")
               => conversationMessages' =
                    Append(conversationMessages, questionMsg(followUps'[f].text))
     /\ lastEvent'.op # "generate"
          => IsPrefix(conversationMessages, conversationMessages')]_vars

\* the proxy call of a follow-up has failed with no other handler in flight,
\* and the question of that follow-up is the last entry of the Transcript
C23_Witness ==
  /\ lastEvent.op = "fuFailed"
  /\ gen.pc = "idle"
  /\ \A f \in 1..MaxFollowUps : followUps[f].pc = "idle"
  /\ Len(conversationMessages) > 0
  /\ conversationMessages[Len(conversationMessages)].kind = "question"


\* the stored list is one that saveSelectedToStorage() writes for a
\* Selection Set of catalog products, the empty one included: ids of the
\* catalog, none twice
SavedFromCatalog(storage) ==
  /\ storage.kind = "array"
  /\ \A k \in 1..Len(storage.ids) :
       /\ \E p \in CatalogProducts : p.id = storage.ids[k]
       /\ \A j \in 1..Len(storage.ids) : storage.ids[j] = storage.ids[k] => j = k

\* C24 as stated: a saved Selection Set of catalog products, rehydrated by
\* the next startup load, has the same ids in the same order as saved.
C24_RoundTripKeepsOrder ==
  [][(lastEvent'.op = "initLoaded" /\ SavedFromCatalog(localStorage))
       => idsOf(selectedProducts') = localStorage.ids]_vars

\* C24 amended: a saved Selection Set of catalog products, rehydrated by
\* the next startup load, has the same ids as saved, in the order in which
\* the catalog lists the products.
C24_RoundTripCatalogOrder ==
  [][(lastEvent'.op = "initLoaded" /\ SavedFromCatalog(localStorage))
       => idsOf(selectedProducts')
            = filterSeq(idsOf(Catalog),
                        {localStorage.ids[k] : k \in 1..Len(localStorage.ids)})]_vars

\* the startup load has rehydrated two products from the list that card
\* toggles had saved
C24_Witness ==
  /\ lastEvent.op = "initLoaded"
  /\ Len(selectedProducts) = 2
  /\ localStorage = saveSelectedToStorage(selectedProducts)


\* C25: Escape pressed while the Detail Overlay is closed, also after it was
\* opened and closed before, has no effect: the overlay stays closed, no
\* focus timer is started and the focus is not moved.
C25_EscapeWhileClosed ==
  [][(lastEvent'.op = "escape" /\ ~overlay.open)
       => /\ ~overlay'.open
          /\ overlay'.timers = overlay.timers
          /\ overlay'.focus = overlay.focus]_vars


\* the /chat request held a message string and no transcript
SingleMessage ==
  /\ ChatHandled
  /\ wk.req.body.message.kind = "string"
  /\ trim(wk.req.body.message.text) # <<>>
  /\ wk.req.body.messages.kind = "absent"

\* C26: when POST /chat receives a single message string and no transcript,
\* the prompt forwarded to the language-model API holds that message as a
\* user turn.
C26_MessageForwardedAsUser ==
  SingleMessage
    => /\ \A i \in 1..Len(wk.calls) :
            wk.calls[i].to = "llm"
              => \E j \in 1..Len(wk.calls[i].messages) :
                   wk.calls[i].messages[j].role = "user"
       /\ (wk.pc = "done" /\ wk.env.openai)
            => \E i \in 1..Len(wk.calls) : wk.calls[i].to = "llm"

====
